---- MODULE Spec2Model ----
(***************************************************************************)
(* Period tracker: the forecast engine (PredictionService) and the         *)
(* cache-aside layer around it (routes/predictions.ts, routes/periods.ts,  *)
(* config/redis.ts).                                                       *)
(*                                                                         *)
(* Conventions of the model                                                *)
(*   - a date is a whole number of days since 1970-01-01 (the server runs  *)
(*     in UTC, so Date arithmetic by setDate/getDate is day arithmetic);   *)
(*   - a JavaScript number that is a quotient of integers is kept exact as *)
(*     a pair <<p, q>> meaning p/q, q > 0;                                 *)
(*   - a confidence score is kept in units of 1/300 (0.40 = 120,           *)
(*     0.95 = 285, 0.08/12 = 2);                                           *)
(*   - a standard deviation sqrt(d)/n is kept as [d |-> d, n |-> n].       *)
(***************************************************************************)
EXTENDS Integers, Sequences, FiniteSets, Bags, TLC

(***************************************************************************)
(* Nullable values.                                                        *)
(***************************************************************************)
NoDate == 0 - 1
NoFlow == "null"
FlowIntensity == {"light", "moderate", "heavy"}

(***************************************************************************)
(* Arithmetic helpers.                                                     *)
(***************************************************************************)
RECURSIVE SumSeq(_)
SumSeq(s) == IF s = <<>> THEN 0 ELSE Head(s) + SumSeq(Tail(s))

Min2(a, b) == IF a < b THEN a ELSE b
Max2(a, b) == IF a > b THEN a ELSE b
Abs(x) == IF x < 0 THEN 0 - x ELSE x

\* Array.prototype.filter(length => length >= lo && length <= hi).
RECURSIVE FilterRange(_, _, _)
FilterRange(s, lo, hi) ==
  IF s = <<>> THEN <<>>
  ELSE IF Head(s) >= lo /\ Head(s) <= hi
       THEN <<Head(s)>> \o FilterRange(Tail(s), lo, hi)
       ELSE FilterRange(Tail(s), lo, hi)

\* Array.prototype.slice(from, to) on a sequence (0-based, end exclusive).
Slice(s, from, to) ==
  IF from >= Min2(to, Len(s)) THEN <<>> ELSE SubSeq(s, from + 1, Min2(to, Len(s)))

\* Math.round of the non-negative quotient q[1]/q[2]: halves go up.
MathRound(q) == (2 * q[1] + q[2]) \div (2 * q[2])

\* Comparisons of a quotient with a whole number.
QGe(q, k) == q[1] >= k * q[2]
QLe(q, k) == q[1] <= k * q[2]
QEq(a, b) == a[1] * b[2] = b[1] * a[2]

\* floor(sqrt(x)) by bisection, lo*lo <= x < hi*hi.
RECURSIVE IsqrtIter(_, _, _)
IsqrtIter(x, lo, hi) ==
  IF hi - lo <= 1 THEN lo
  ELSE LET mid == (lo + hi) \div 2
       IN IF mid * mid <= x THEN IsqrtIter(x, mid, hi) ELSE IsqrtIter(x, lo, mid)
Isqrt(x) == IsqrtIter(x, 0, 46340)

(***************************************************************************)
(* Dates.                                                                  *)
(***************************************************************************)
\* PredictionService.daysBetween: whole days between two dates, unsigned.
daysBetween(date1, date2) == Abs(date2 - date1)

\* PredictionService.addDays.
addDays(date, days) == date + days

\* Date.prototype.setDate converts its argument with ToIntegerOrInfinity: a
\* fractional number of days (never negative here) loses its fraction.
ToInteger(q) == q[1] \div q[2]

\* Date.prototype.toISOString().split('T')[0]: the calendar date <<y, m, d>>
\* of a day number (proleptic Gregorian calendar).
toISODate(day) ==
  LET z   == day + 719468
      era == z \div 146097
      doe == z - era * 146097
      yoe == (doe - doe \div 1460 + doe \div 36524 - doe \div 146096) \div 365
      doy == doe - (365 * yoe + yoe \div 4 - yoe \div 100)
      mp  == (5 * doy + 2) \div 153
      d   == doy - (153 * mp + 2) \div 5 + 1
      m   == IF mp < 10 THEN mp + 3 ELSE mp - 9
      y   == yoe + era * 400 + (IF m <= 2 THEN 1 ELSE 0)
  IN <<y, m, d>>

(***************************************************************************)
(* PredictionService: the pure helpers.  A record of the history is        *)
(* [start_date, end_date, flow_intensity]; histories are newest first.     *)
(***************************************************************************)
average(numbers) ==
  IF Len(numbers) = 0 THEN <<0, 1>> ELSE <<SumSeq(numbers), Len(numbers)>>

\* sqrt(average of squared deviations) = sqrt(n*Sum(x^2) - Sum(x)^2) / n.
standardDeviation(numbers) ==
  IF Len(numbers) = 0 THEN [d |-> 0, n |-> 1]
  ELSE LET n  == Len(numbers)
           s  == SumSeq(numbers)
           s2 == SumSeq([i \in 1..n |-> numbers[i] * numbers[i]])
       IN [d |-> n * s2 - s * s, n |-> n]

\* stdDev < k.
StdLt(sd, k) == sd.d < k * k * sd.n * sd.n

\* Number.prototype.toFixed(2) of a standard deviation, in hundredths.
toFixed2(sd) == (Isqrt(40000 * sd.d) + sd.n) \div (2 * sd.n)

RECURSIVE CycleLengthsFrom(_, _)
CycleLengthsFrom(periods, i) ==
  IF i >= Len(periods) THEN <<>>
  ELSE LET cycleLength == daysBetween(periods[i + 1].start_date, periods[i].start_date)
       IN (IF cycleLength >= 21 /\ cycleLength <= 45 THEN <<cycleLength>> ELSE <<>>)
          \o CycleLengthsFrom(periods, i + 1)

\* Interval samples that are clamped into [21, 45] instead of dropped.
calculateCycleLengthsClamped(periods) ==
  [i \in 1..(Len(periods) - 1) |->
     Max2(21, Min2(45, daysBetween(periods[i + 1].start_date, periods[i].start_date)))]

calculateCycleLengths(periods) == CycleLengthsFrom(periods, 1)

RECURSIVE PeriodLengthsOf(_)
PeriodLengthsOf(periods) ==
  IF periods = <<>> THEN <<>>
  ELSE (IF Head(periods).end_date # NoDate
        THEN <<daysBetween(Head(periods).start_date, Head(periods).end_date) + 1>>
        ELSE <<>>) \o PeriodLengthsOf(Tail(periods))

\* A duration average over all records, without the filter to [2, 10] days.
calculateAveragePeriodLengthUnfiltered(periods) ==
  IF Len(PeriodLengthsOf(periods)) > 0 THEN average(PeriodLengthsOf(periods)) ELSE <<5, 1>>

calculateAveragePeriodLength(periods) ==
  LET periodLengths == FilterRange(PeriodLengthsOf(periods), 2, 10)
  IN IF Len(periodLengths) > 0 THEN average(periodLengths) ELSE <<5, 1>>

Regularity(sd) ==
  IF StdLt(sd, 2) THEN "very_regular"
  ELSE IF StdLt(sd, 4) THEN "regular"
  ELSE IF StdLt(sd, 7) THEN "somewhat_irregular"
  ELSE "irregular"

calculateCycleStats(periods) ==
  LET cycleLengths == calculateCycleLengths(periods)
      periodLengths == PeriodLengthsOf(periods)
      sd == standardDeviation(cycleLengths)
  IN [avgCycleLength    |-> average(cycleLengths),
      avgPeriodLength   |-> average(periodLengths),
      standardDeviation |-> sd,
      regularity        |-> Regularity(sd),
      cyclesTracked     |-> Len(cycleLengths)]

\* The plain mean of the valid intervals in place of the weighted one.
calculateUnweightedCycleLength(periods) == average(calculateCycleLengths(periods))

\* recentAvg * 0.7 + middleAvg * 0.3, and the three-tier form, as quotients.
calculateWeightedCycleLength(periods) ==
  LET cycleLengths == calculateCycleLengths(periods)
      recent3 == Slice(cycleLengths, 0, Min2(3, Len(cycleLengths)))
      middle3 == Slice(cycleLengths, 3, Min2(6, Len(cycleLengths)))
      older   == Slice(cycleLengths, 6, Len(cycleLengths))
      recentAvg == IF Len(recent3) > 0 THEN average(recent3) ELSE <<0, 1>>
      middleAvg == IF Len(middle3) > 0 THEN average(middle3) ELSE recentAvg
      olderAvg  == IF Len(older) > 0 THEN average(older) ELSE middleAvg
  IN IF Len(cycleLengths) <= 3 THEN recentAvg
     ELSE IF Len(cycleLengths) <= 6
     THEN <<7 * recentAvg[1] * middleAvg[2] + 3 * middleAvg[1] * recentAvg[2],
            10 * recentAvg[2] * middleAvg[2]>>
     ELSE <<5 * recentAvg[1] * middleAvg[2] * olderAvg[2]
              + 3 * middleAvg[1] * recentAvg[2] * olderAvg[2]
              + 2 * olderAvg[1] * recentAvg[2] * middleAvg[2],
            10 * recentAvg[2] * middleAvg[2] * olderAvg[2]>>

\* The sum returned as it is, without Math.max / Math.min.
ConfidenceUnclamped(finalConfidence) == finalConfidence

\* Math.max(0.40, Math.min(0.95, x)) in units of 1/300.
ClampConfidence(finalConfidence) == Max2(120, Min2(285, finalConfidence))

calculateConfidence(stdDev, dataPoints, avgCycleLength) ==
  LET baseConfidence ==
        IF StdLt(stdDev, 2) THEN 276
        ELSE IF StdLt(stdDev, 4) THEN 246
        ELSE IF StdLt(stdDev, 7) THEN 201
        ELSE 150
      dataBoost == Min2(dataPoints, 12) * 2
      cycleAdjustment ==
        IF QGe(avgCycleLength, 26) /\ QLe(avgCycleLength, 32) THEN 0 ELSE 0 - 15
  IN ClampConfidence(baseConfidence + dataBoost + cycleAdjustment)

RECURSIVE WithFlow(_)
WithFlow(periods) ==
  IF periods = <<>> THEN <<>>
  ELSE (IF Head(periods).flow_intensity # NoFlow THEN <<Head(periods)>> ELSE <<>>)
       \o WithFlow(Tail(periods))

\* A tally without the recency bonus.
FlowCountRaw(ps, recent, f) ==
  2 * Cardinality({i \in 1..Len(ps) : ps[i].flow_intensity = f})

\* Tallies are doubled (a record counts 2, the recency bonus 1).
FlowCount(ps, recent, f) ==
  2 * Cardinality({i \in 1..Len(ps) : ps[i].flow_intensity = f})
  + Cardinality({i \in 1..Len(recent) : recent[i].flow_intensity = f})

\* A prediction that takes the first six records before it drops those
\* without a category.
predictFlowIntensitySliceFirst(periods) ==
  LET periodsWithFlow == WithFlow(Slice(periods, 0, 6))
      recentPeriods == Slice(periodsWithFlow, 0, 3)
      light == FlowCount(periodsWithFlow, recentPeriods, "light")
      moderate == FlowCount(periodsWithFlow, recentPeriods, "moderate")
      heavy == FlowCount(periodsWithFlow, recentPeriods, "heavy")
      maxCount == Max2(light, Max2(moderate, heavy))
  IN IF Len(periodsWithFlow) = 0 THEN NoFlow
     ELSE IF light = maxCount THEN "light"
     ELSE IF moderate = maxCount THEN "moderate"
     ELSE "heavy"

\* A prediction that answers a tie with moderate.
predictFlowIntensityTieModerate(periods) ==
  LET periodsWithFlow == Slice(WithFlow(periods), 0, 6)
      recentPeriods == Slice(periodsWithFlow, 0, 3)
      light == FlowCount(periodsWithFlow, recentPeriods, "light")
      moderate == FlowCount(periodsWithFlow, recentPeriods, "moderate")
      heavy == FlowCount(periodsWithFlow, recentPeriods, "heavy")
      maxCount == Max2(light, Max2(moderate, heavy))
  IN IF Len(periodsWithFlow) = 0 THEN NoFlow
     ELSE IF light = maxCount /\ moderate < maxCount /\ heavy < maxCount THEN "light"
     ELSE IF heavy = maxCount /\ light < maxCount /\ moderate < maxCount THEN "heavy"
     ELSE "moderate"

\* Object.entries(intensityCounts).find: key order light, moderate, heavy.
predictFlowIntensity(periods) ==
  LET periodsWithFlow == Slice(WithFlow(periods), 0, 6)
      recentPeriods == Slice(periodsWithFlow, 0, 3)
      count(f) == FlowCount(periodsWithFlow, recentPeriods, f)
      maxCount == Max2(count("light"), Max2(count("moderate"), count("heavy")))
  IN IF Len(periodsWithFlow) = 0 THEN NoFlow
     ELSE IF count("light") = maxCount THEN "light"
     ELSE IF count("moderate") = maxCount THEN "moderate"
     ELSE IF count("heavy") = maxCount THEN "heavy"
     ELSE "moderate"

(***************************************************************************)
(* PredictionService: the orchestrators.  `periods` is what Period.findAll *)
(* returned, `settings` the user's UserSettings row, `today` new Date().   *)
(***************************************************************************)
\* A fertile window counted forward from the predicted start.
FertileWindowAfter(predictedStartDate) ==
  LET ovulationDay == addDays(predictedStartDate, 14)
  IN [ovulationStart |-> addDays(ovulationDay, 0 - 5),
      ovulationEnd   |-> addDays(ovulationDay, 1)]

FertileWindow(predictedStartDate) ==
  LET ovulationDay == addDays(predictedStartDate, 0 - 14)
  IN [ovulationStart |-> addDays(ovulationDay, 0 - 5),
      ovulationEnd   |-> addDays(ovulationDay, 1)]

\* settings?.avg_cycle_length || 28: a zero is falsy and falls back too.
OrDefault(value, default) == IF value = 0 THEN default ELSE value

\* A default forecast that ignores the settings row: always 28 and 5 days.
useDefaultPredictionFixed(settings, periods, today) ==
  LET lastPeriodStart == IF Len(periods) > 0 THEN periods[1].start_date ELSE today
      predictedStartDate == addDays(lastPeriodStart, 28)
      window == FertileWindow(predictedStartDate)
  IN [predictedStartDate     |-> predictedStartDate,
      predictedEndDate       |-> addDays(predictedStartDate, 4),
      ovulationStart         |-> window.ovulationStart,
      ovulationEnd           |-> window.ovulationEnd,
      confidenceScore        |-> 120 + Len(periods) * 30,
      predictedFlowIntensity |-> NoFlow,
      cycleStats |-> [avgCycleLength    |-> <<28, 1>>,
                      avgPeriodLength   |-> <<5, 1>>,
                      standardDeviation |-> [d |-> 0, n |-> 1],
                      regularity        |-> "irregular",
                      cyclesTracked     |-> Len(periods)]]

useDefaultPrediction(settings, periods, today) ==
  LET avgCycleLength == OrDefault(settings.avg_cycle_length, 28)
      avgPeriodLength == OrDefault(settings.avg_period_length, 5)
      lastPeriodStart == IF Len(periods) > 0 THEN periods[1].start_date ELSE today
      predictedStartDate == addDays(lastPeriodStart, avgCycleLength)
      predictedEndDate == addDays(predictedStartDate, avgPeriodLength - 1)
      window == FertileWindow(predictedStartDate)
  IN [predictedStartDate     |-> predictedStartDate,
      predictedEndDate       |-> predictedEndDate,
      ovulationStart         |-> window.ovulationStart,
      ovulationEnd           |-> window.ovulationEnd,
      confidenceScore        |-> 120 + Len(periods) * 30,
      predictedFlowIntensity |-> NoFlow,
      cycleStats |-> [avgCycleLength    |-> <<avgCycleLength, 1>>,
                      avgPeriodLength   |-> <<avgPeriodLength, 1>>,
                      standardDeviation |-> [d |-> 0, n |-> 1],
                      regularity        |-> "irregular",
                      cyclesTracked     |-> Len(periods)]]

\* A statistical forecast whose confidence is fed the number of valid
\* intervals and the weighted mean.
StatisticalPredictionBySamples(periods) ==
  LET cycleStats == calculateCycleStats(periods)
      predictedCycleLength == calculateWeightedCycleLength(periods)
      lastPeriodStart == periods[1].start_date
      predictedStartDate == addDays(lastPeriodStart, MathRound(predictedCycleLength))
      avgPeriodLength == calculateAveragePeriodLength(periods)
      predictedEndDate == addDays(predictedStartDate, MathRound(avgPeriodLength) - 1)
      window == FertileWindow(predictedStartDate)
  IN [predictedStartDate     |-> predictedStartDate,
      predictedEndDate       |-> predictedEndDate,
      ovulationStart         |-> window.ovulationStart,
      ovulationEnd           |-> window.ovulationEnd,
      confidenceScore        |-> calculateConfidence(cycleStats.standardDeviation,
                                                     cycleStats.cyclesTracked,
                                                     predictedCycleLength),
      predictedFlowIntensity |-> predictFlowIntensity(periods),
      cycleStats             |-> cycleStats]

StatisticalPrediction(periods) ==
  LET cycleStats == calculateCycleStats(periods)
      predictedCycleLength == calculateWeightedCycleLength(periods)
      lastPeriodStart == periods[1].start_date
      predictedStartDate == addDays(lastPeriodStart, MathRound(predictedCycleLength))
      avgPeriodLength == calculateAveragePeriodLength(periods)
      predictedEndDate == addDays(predictedStartDate, MathRound(avgPeriodLength) - 1)
      window == FertileWindow(predictedStartDate)
  IN [predictedStartDate     |-> predictedStartDate,
      predictedEndDate       |-> predictedEndDate,
      ovulationStart         |-> window.ovulationStart,
      ovulationEnd           |-> window.ovulationEnd,
      confidenceScore        |-> calculateConfidence(cycleStats.standardDeviation,
                                                     Len(periods),
                                                     cycleStats.avgCycleLength),
      predictedFlowIntensity |-> predictFlowIntensity(periods),
      cycleStats             |-> cycleStats]

\* An orchestrator that asks for two records instead of three.
predictNextPeriodFromTwo(settings, periods, today) ==
  IF Len(periods) < 2 THEN useDefaultPrediction(settings, periods, today)
  ELSE StatisticalPrediction(periods)

\* The value predictNextPeriod resolves to (its writes are in ReadCompute).
predictNextPeriod(settings, periods, today) ==
  IF Len(periods) < 3 THEN useDefaultPrediction(settings, periods, today)
  ELSE StatisticalPrediction(periods)

\* updateUserSettings: the row the statistical path leaves behind.
updateUserSettings(stats) ==
  [avg_cycle_length  |-> MathRound(stats.avgCycleLength),
   avg_period_length |-> MathRound(stats.avgPeriodLength)]

\* 0.95^i as the quotient 19^i / 20^i.
RECURSIVE Pow(_, _)
Pow(b, i) == IF i = 0 THEN 1 ELSE b * Pow(b, i - 1)

\* The decayed confidence without the floor of 0.40.
CycleConfidenceUnfloored(firstConfidence, i) ==
  <<firstConfidence * Pow(19, i), 300 * Pow(20, i)>>

\* Math.max(firstConfidence * Math.pow(0.95, i), 0.40) as a quotient p/q.
CycleConfidence(firstConfidence, i) ==
  <<Max2(firstConfidence * Pow(19, i), 120 * Pow(20, i)), 300 * Pow(20, i)>>

\* predictMultipleCycles: cycle 1 is predictNextPeriod's forecast; cycle i + 1
\* starts avgCycleLength days (a number that may carry a fraction) after
\* cycle i.
RECURSIVE CycleStart(_, _, _)
CycleStart(first, avgCycleLength, i) ==
  IF i = 0 THEN first.predictedStartDate
  ELSE addDays(CycleStart(first, avgCycleLength, i - 1), ToInteger(avgCycleLength))

\* The forecast of cycle i + 1, i >= 1, from the first.
LaterCycle(firstPrediction, i) ==
  LET predictedStartDate ==
        CycleStart(firstPrediction, firstPrediction.cycleStats.avgCycleLength, i)
      window == FertileWindow(predictedStartDate)
  IN [cycleNumber            |-> i + 1,
      predictedStartDate     |-> predictedStartDate,
      predictedEndDate       |-> addDays(predictedStartDate,
                                   MathRound(firstPrediction.cycleStats.avgPeriodLength) - 1),
      ovulationStart         |-> window.ovulationStart,
      ovulationEnd           |-> window.ovulationEnd,
      confidenceScore        |-> CycleConfidence(firstPrediction.confidenceScore, i),
      predictedFlowIntensity |-> firstPrediction.predictedFlowIntensity]

\* { ...firstPrediction, cycleNumber: 1 }, without the statistics.
FirstCycle(firstPrediction) ==
  [cycleNumber            |-> 1,
   predictedStartDate     |-> firstPrediction.predictedStartDate,
   predictedEndDate       |-> firstPrediction.predictedEndDate,
   ovulationStart         |-> firstPrediction.ovulationStart,
   ovulationEnd           |-> firstPrediction.ovulationEnd,
   confidenceScore        |-> <<firstPrediction.confidenceScore, 300>>,
   predictedFlowIntensity |-> firstPrediction.predictedFlowIntensity]

MultipleCycles(firstPrediction, numberOfCycles) ==
  [predictions |->
     [k \in 1..Max2(1, numberOfCycles) |->
        IF k = 1 THEN FirstCycle(firstPrediction) ELSE LaterCycle(firstPrediction, k - 1)],
   cycleStats |-> firstPrediction.cycleStats]

predictMultipleCycles(settings, periods, today, numberOfCycles) ==
  MultipleCycles(predictNextPeriod(settings, periods, today), numberOfCycles)

(***************************************************************************)
(* routes/predictions.ts: the payload of GET /next-period.                 *)
(***************************************************************************)
responseData(prediction) ==
  [next_period |->
     [predicted_start_date     |-> toISODate(prediction.predictedStartDate),
      predicted_end_date       |-> toISODate(prediction.predictedEndDate),
      confidence_score         |-> prediction.confidenceScore,
      predicted_flow_intensity |-> prediction.predictedFlowIntensity],
   ovulation |->
     [predicted_start_date |-> toISODate(prediction.ovulationStart),
      predicted_end_date   |-> toISODate(prediction.ovulationEnd)],
   cycle_stats |->
     [avg_cycle_length   |-> MathRound(prediction.cycleStats.avgCycleLength),
      avg_period_length  |-> MathRound(prediction.cycleStats.avgPeriodLength),
      cycle_regularity   |-> prediction.cycleStats.regularity,
      cycle_variation    |-> toFixed2(prediction.cycleStats.standardDeviation),
      cycles_tracked     |-> prediction.cycleStats.cyclesTracked,
      standard_deviation |-> toFixed2(prediction.cycleStats.standardDeviation)]]

\* GET /calendar: parseInt(req.query.months) || 3, then Math.min(months, 6).
\* A query without months (or with one that is no number) parses to NaN.
\* The query is <<n>>, or <<>> for NaN.
NoMonths == <<>>
numberOfCycles(query) ==
  LET months == IF query = NoMonths THEN 3 ELSE IF query[1] = 0 THEN 3 ELSE query[1]
  IN Min2(months, 6)

(***************************************************************************)
(* The running system.                                                     *)
(***************************************************************************)
Users == {"u1", "u2"}
Readers == {"r1", "r2"}

\* Bounds of the model: rows of the periods table; intervals of a history
\* handed to the engine directly; records of a history of flow categories;
\* intervals of a history handed to the weighting.
MaxRows == 3
MaxGaps == 4
MaxFlows == 7
MaxSamples == 8

\* Program constants.
CacheTtl == 3600
QueryLimit == 12

\* Inputs of the requests.  Start dates 2024-01-01 and 2024-01-25; a period
\* is posted with its fifth day as end date and no flow category.
StartDays == {19723, 19747}
EndOffsets == {4}
EndInputs(start) == {start + k : k \in EndOffsets}
\* Time passes in steps of half an hour.
TickSeconds == {1800}
\* new Date() on the server, as a day: 2024-03-01.
Today == 19723 + 60

VARIABLES
  periodsTable,     \* table periods: a bag of rows [user_id, start_date, end_date, flow_intensity]
  userSettings,     \* table user_settings: one row per user
  predictionsTable, \* table predictions: whether the user has rows (never read back)
  redis,            \* "none" (REDIS_URL unset), "ready" or "down" (commands fail)
  store,            \* Redis keyspace: key -> entry, its time to live and its age
  req,              \* per in-flight GET /next-period: where it stands
  last,             \* the step just taken and the response it sent, if any
  eng               \* a history handed to the engine directly, and its forecast

vars == <<periodsTable, userSettings, predictionsTable, redis, store, req, last, eng>>

\* One key per prefix, whoever the user is.
KeyShared(prefix, userId) == <<prefix, "u1">>

\* `predictions:${userId}` and `prediction:${userId}`.
Key(prefix, userId) == <<prefix, userId>>
Keys == {"predictions", "prediction"} \X Users

NoEntry == [present |-> FALSE, value |-> <<>>, ttl |-> 0, age |-> 0]
Idle == [pc |-> "idle", user |-> "u1", data |-> <<>>, calls |-> 0,
         unavailable |-> FALSE, expired |-> FALSE]
DefaultSettings == [avg_cycle_length |-> 28, avg_period_length |-> 5]
NoForecast == [periods |-> <<>>, settings |-> DefaultSettings, result |-> <<>>,
               calendar |-> <<>>, flow |-> <<>>, weighted |-> <<>>, samples |-> <<>>]

\* JSON.stringify / JSON.parse of a payload of strings, finite numbers and nulls.
JSONstringify(value) == [json |-> value]
JSONparse(text) == text.json

\* A key Redis still holds: set, and younger than its time to live.
Live(st, key) == st[key].present /\ st[key].age < st[key].ttl

\* redis.get(key): the text, or nothing.
redisGet(key) == IF Live(store, key) THEN <<store[key].value>> ELSE <<>>

\* A get that hands back the stored text without JSON.parse.
cacheGetUnparsed(key) ==
  IF redis # "ready" THEN <<>> ELSE redisGet(key)

\* cacheHelpers.get: null (<<>>) without a client, on an error and on a miss.
cacheGet(key) ==
  IF redis = "none" THEN <<>>
  ELSE IF redis = "down" THEN <<>>
  ELSE IF redisGet(key) # <<>> THEN <<JSONparse(redisGet(key)[1])>> ELSE <<>>

\* An access that also restarts the time to live of a key it finds alive.
ExpireOrTouch(st, key) ==
  IF redis = "ready" /\ st[key].present
  THEN IF Live(st, key) THEN [st EXCEPT ![key].age = 0] ELSE [st EXCEPT ![key] = NoEntry]
  ELSE st

\* Redis drops a key it finds expired when the key is accessed.
Expire(st, key) ==
  IF redis = "ready" /\ st[key].present /\ ~Live(st, key)
  THEN [st EXCEPT ![key] = NoEntry] ELSE st

\* redis.setex(key, ttl, text).
redisSetex(st, key, ttl, text) ==
  [st EXCEPT ![key] = [present |-> TRUE, value |-> text, ttl |-> ttl, age |-> 0]]

\* A set that ignores the caller's ttl and keeps the entry for a minute.
cacheSetShortTtl(st, key, value, ttl) ==
  IF redis = "ready" THEN redisSetex(st, key, 60, JSONstringify(value)) ELSE st

\* A set that keeps the entry for twice the caller's ttl.
cacheSetDoubleTtl(st, key, value, ttl) ==
  IF redis = "ready" THEN redisSetex(st, key, 2 * ttl, JSONstringify(value)) ELSE st

\* cacheHelpers.set: nothing without a client; an error is swallowed.
cacheSet(st, key, value, ttl) ==
  IF redis = "ready" THEN redisSetex(st, key, ttl, JSONstringify(value)) ELSE st

\* redis.keys(pattern) for a pattern without glob characters: the key itself.
redisKeys(st, pattern) == {k \in Keys : k = pattern /\ Live(st, k)}

\* cacheHelpers.delete: DEL of every key the pattern matches.
cacheDelete(st, pattern) ==
  IF redis = "ready"
  THEN [k \in Keys |-> IF k \in redisKeys(st, pattern) THEN NoEntry ELSE st[k]]
  ELSE st

\* Period.findAll({user_id, end_date != null}, order start_date DESC, limit 12,
\* raw): every order the database may return rows of equal start_date in.
Completed(userId) ==
  {p \in BagToSet(periodsTable) : p.user_id = userId /\ p.end_date # NoDate}
RECURSIVE CopiesOf(_, _)
CopiesOf(bag, rows) ==
  IF rows = {} THEN 0
  ELSE LET p == CHOOSE x \in rows : TRUE IN bag[p] + CopiesOf(bag, rows \ {p})
findAll(userId) ==
  LET rows == Completed(userId)
      n == CopiesOf(periodsTable, rows)
      orders == {t \in [1..n -> rows] :
                   /\ \A p \in rows : Cardinality({i \in 1..n : t[i] = p}) = periodsTable[p]
                   /\ \A i \in 1..(n - 1) : t[i].start_date >= t[i + 1].start_date}
  IN {Slice([i \in 1..n |-> [start_date |-> s[i].start_date, end_date |-> s[i].end_date,
                              flow_intensity |-> s[i].flow_intensity]], 0, QueryLimit) :
        s \in orders}

\* What a step leaves for the observer: the request it belongs to and, when
\* it answers, the response.  age: the age of the entry a get found (-1: none);
\* attempted: a Redis command was issued; unavailable, expired: what the
\* request's get met.
Event(op, userId) ==
  [op |-> op, user |-> userId, hit |-> FALSE, responded |-> FALSE, status |-> 0,
   cached |-> FALSE, data |-> <<>>, engine |-> 0, age |-> 0 - 1,
   attempted |-> FALSE, unavailable |-> FALSE, expired |-> FALSE]

Init ==
  /\ periodsTable = EmptyBag
  /\ userSettings = [u \in Users |-> DefaultSettings]
  /\ predictionsTable = [u \in Users |-> FALSE]
  /\ redis \in {"none", "ready"}
  /\ store = [k \in Keys |-> NoEntry]
  /\ req = [r \in Readers |-> Idle]
  /\ last = Event("init", "u1")
  /\ eng = NoForecast

(***************************************************************************)
(* GET /api/predictions/next-period, one action per await.                 *)
(***************************************************************************)
\* await cacheHelpers.get(cacheKey); a hit is answered at once.
ReadGet(r, userId) ==
  LET cacheKey == Key("predictions", userId)
      cachedPrediction == cacheGet(cacheKey)
      found == redis = "ready" /\ store[cacheKey].present
      seen == [Event("get", userId) EXCEPT
                 !.age = IF found THEN store[cacheKey].age ELSE 0 - 1,
                 !.attempted = (redis # "none"),
                 !.unavailable = (redis # "ready"),
                 !.expired = (found /\ ~Live(store, cacheKey))]
  IN /\ req[r].pc = "idle"
     /\ store' = Expire(store, cacheKey)
     /\ IF cachedPrediction # <<>>
        THEN /\ req' = req
             /\ last' = [seen EXCEPT !.hit = TRUE, !.responded = TRUE, !.status = 200,
                           !.cached = TRUE, !.data = cachedPrediction]
        ELSE /\ req' = [req EXCEPT ![r] = [pc |-> "miss", user |-> userId,
                                           data |-> <<>>, calls |-> 0,
                                           unavailable |-> seen.unavailable,
                                           expired |-> seen.expired]]
             /\ last' = seen
     /\ UNCHANGED <<periodsTable, userSettings, predictionsTable, redis, eng>>

\* A handler whose statistical path forecasts from the settings row and only
\* then rewrites that row from the history.
ReadComputeFromSettings(r) ==
  /\ req[r].pc = "miss"
  /\ \E periods \in findAll(req[r].user) :
       LET userId == req[r].user
           prediction == useDefaultPrediction(userSettings[userId], periods, Today)
       IN /\ req' = [req EXCEPT ![r].pc = "computed",
                                ![r].data = <<responseData(prediction)>>,
                                ![r].calls = @ + 1]
          /\ IF Len(periods) < 3
             THEN UNCHANGED <<predictionsTable, userSettings>>
             ELSE /\ predictionsTable' = [predictionsTable EXCEPT ![userId] = TRUE]
                  /\ userSettings' = [userSettings EXCEPT
                                        ![userId] = updateUserSettings(calculateCycleStats(periods))]
          /\ last' = [Event("compute", userId) EXCEPT !.engine = req[r].calls + 1]
  /\ UNCHANGED <<periodsTable, redis, store, eng>>

\* await predictionService.predictNextPeriod(userId), the record store answering:
\* the statistical path also saves the prediction and updates the settings.
ReadCompute(r) ==
  /\ req[r].pc = "miss"
  /\ \E periods \in findAll(req[r].user) :
       LET userId == req[r].user
           prediction == predictNextPeriod(userSettings[userId], periods, Today)
       IN /\ req' = [req EXCEPT ![r].pc = "computed",
                                ![r].data = <<responseData(prediction)>>,
                                ![r].calls = @ + 1]
          /\ IF Len(periods) < 3
             THEN UNCHANGED <<predictionsTable, userSettings>>
             ELSE /\ predictionsTable' = [predictionsTable EXCEPT ![userId] = TRUE]
                  /\ userSettings' = [userSettings EXCEPT
                                        ![userId] = updateUserSettings(prediction.cycleStats)]
          /\ last' = [Event("compute", userId) EXCEPT !.engine = req[r].calls + 1]
  /\ UNCHANGED <<periodsTable, redis, store, eng>>

\* A handler that meets the failing record store with the default forecast
\* of an empty history, caches it and answers 200.
ReadComputeFallback(r) ==
  LET fallback == responseData(useDefaultPrediction(DefaultSettings, <<>>, Today))
  IN /\ req[r].pc = "miss"
     /\ store' = cacheSet(store, Key("predictions", req[r].user), fallback, CacheTtl)
     /\ req' = [req EXCEPT ![r] = Idle]
     /\ last' = [Event("readfail", req[r].user) EXCEPT !.engine = req[r].calls + 1,
                   !.responded = TRUE, !.status = 200, !.data = <<fallback>>]
     /\ UNCHANGED <<periodsTable, userSettings, predictionsTable, redis, eng>>

\* The same await with the record store unreachable: the query throws, the
\* handler's catch passes the error on and errorHandler answers 500.
ReadComputeFail(r) ==
  /\ req[r].pc = "miss"
  /\ req' = [req EXCEPT ![r] = Idle]
  /\ last' = [Event("readfail", req[r].user) EXCEPT !.engine = req[r].calls + 1,
                !.responded = TRUE, !.status = 500]
  /\ UNCHANGED <<periodsTable, userSettings, predictionsTable, redis, store, eng>>

\* The record store is lost inside the statistical path, after Prediction.create
\* and before the settings update: the prediction row stays, the answer is 500.
ReadComputeAbort(r) ==
  /\ req[r].pc = "miss"
  /\ \E periods \in findAll(req[r].user) : Len(periods) >= 3
  /\ predictionsTable' = [predictionsTable EXCEPT ![req[r].user] = TRUE]
  /\ req' = [req EXCEPT ![r] = Idle]
  /\ last' = [Event("readfail", req[r].user) EXCEPT !.engine = req[r].calls + 1,
                !.responded = TRUE, !.status = 500]
  /\ UNCHANGED <<periodsTable, userSettings, redis, store, eng>>

\* A handler that answers a computed forecast with cached: true.
ReadSetCachedTrue(r) ==
  LET cacheKey == Key("predictions", req[r].user)
  IN /\ req[r].pc = "computed"
     /\ store' = cacheSet(store, cacheKey, req[r].data[1], CacheTtl)
     /\ req' = [req EXCEPT ![r] = Idle]
     /\ last' = [Event("set", req[r].user) EXCEPT !.engine = req[r].calls,
                   !.responded = TRUE, !.status = 200, !.cached = TRUE,
                   !.data = req[r].data, !.attempted = (redis # "none"),
                   !.unavailable = req[r].unavailable, !.expired = req[r].expired]
     /\ UNCHANGED <<periodsTable, userSettings, predictionsTable, redis, eng>>

\* await cacheHelpers.set(cacheKey, responseData, 3600); res.json(...).
ReadSet(r) ==
  LET cacheKey == Key("predictions", req[r].user)
  IN /\ req[r].pc = "computed"
     /\ store' = cacheSet(store, cacheKey, req[r].data[1], CacheTtl)
     /\ req' = [req EXCEPT ![r] = Idle]
     /\ last' = [Event("set", req[r].user) EXCEPT !.engine = req[r].calls,
                   !.responded = TRUE, !.status = 200, !.cached = FALSE,
                   !.data = req[r].data, !.attempted = (redis # "none"),
                   !.unavailable = req[r].unavailable, !.expired = req[r].expired]
     /\ UNCHANGED <<periodsTable, userSettings, predictionsTable, redis, eng>>

(***************************************************************************)
(* /api/periods: create, update, delete.  A row's id is a random UUID that *)
(* only addresses the row, so a request names the row itself.              *)
(***************************************************************************)
\* POST /: Period.create, then cacheHelpers.delete(`prediction:${userId}`).
CreatePeriod(userId, start, end, flow) ==
  /\ BagCardinality(periodsTable) < MaxRows
  /\ periodsTable' = periodsTable (+)
       SetToBag({[user_id |-> userId, start_date |-> start, end_date |-> end,
                  flow_intensity |-> flow]})
  /\ store' = cacheDelete(store, Key("prediction", userId))
  /\ last' = [Event("create", userId) EXCEPT !.responded = TRUE, !.status = 201,
                !.attempted = (redis # "none")]
  /\ UNCHANGED <<userSettings, predictionsTable, redis, req, eng>>

\* PUT /:id: a field the body leaves out keeps its value; no cache call.
UpdatePeriod(userId, period, start, end, flow) ==
  /\ BagIn(period, periodsTable) /\ period.user_id = userId
  /\ periodsTable' = (periodsTable (-) SetToBag({period})) (+)
       SetToBag({[period EXCEPT
                    !.start_date = IF start # NoDate THEN start ELSE @,
                    !.end_date = IF end # NoDate THEN end ELSE @,
                    !.flow_intensity = IF flow # NoFlow THEN flow ELSE @]})
  /\ last' = [Event("update", userId) EXCEPT !.responded = TRUE, !.status = 200]
  /\ UNCHANGED <<userSettings, predictionsTable, redis, store, req, eng>>

\* DELETE /:id: no cache call.
DeletePeriod(userId, period) ==
  /\ BagIn(period, periodsTable) /\ period.user_id = userId
  /\ periodsTable' = periodsTable (-) SetToBag({period})
  /\ last' = [Event("delete", userId) EXCEPT !.responded = TRUE, !.status = 200]
  /\ UNCHANGED <<userSettings, predictionsTable, redis, store, req, eng>>

\* PUT or DELETE of an id the user has no row for: 404, nothing changes.
PeriodNotFound(userId) ==
  /\ last' = [Event("notfound", userId) EXCEPT !.responded = TRUE, !.status = 404]
  /\ UNCHANGED <<periodsTable, userSettings, predictionsTable, redis, store, req, eng>>

\* A write with the record store unreachable: the query throws, 500.
WriteFail(userId) ==
  /\ last' = [Event("writefail", userId) EXCEPT !.responded = TRUE, !.status = 500]
  /\ UNCHANGED <<periodsTable, userSettings, predictionsTable, redis, store, req, eng>>

(***************************************************************************)
(* The environment: time and the Redis connection.                         *)
(***************************************************************************)
\* d seconds pass: every entry ages; an expired entry ages no further.
Tick(d) ==
  /\ store' = [k \in Keys |-> IF store[k].present
                              THEN [store[k] EXCEPT !.age = Min2(@ + d, store[k].ttl)]
                              ELSE store[k]]
  /\ last' = Event("tick", "u1")
  /\ UNCHANGED <<periodsTable, userSettings, predictionsTable, redis, req, eng>>

\* The connection of a configured client is lost or comes back.
RedisFlip ==
  /\ redis # "none"
  /\ redis' = IF redis = "ready" THEN "down" ELSE "ready"
  /\ last' = Event("redis", "u1")
  /\ UNCHANGED <<periodsTable, userSettings, predictionsTable, store, req, eng>>

\* The steps of the requests of users US served by the handlers RS, the
\* record store answering every query.
NextOf(US, RS) ==
  \/ \E r \in RS, u \in US : ReadGet(r, u)
  \/ \E r \in RS : ReadCompute(r)
  \/ \E r \in RS : ReadSet(r)
  \/ \E u \in US, start \in StartDays : \E end \in EndInputs(start) :
       CreatePeriod(u, start, end, NoFlow)
  \/ \E u \in US, period \in BagToSet(periodsTable), start \in StartDays :
       \E end \in EndInputs(start) : UpdatePeriod(u, period, start, end, NoFlow)
  \/ \E u \in US, period \in BagToSet(periodsTable) : DeletePeriod(u, period)
  \/ \E u \in US : PeriodNotFound(u)
  \/ \E d \in TickSeconds : Tick(d)
  \/ RedisFlip

\* The steps in which the record store cannot be reached.
FaultsOf(US, RS) ==
  \/ \E r \in RS : ReadComputeFail(r)
  \/ \E r \in RS : ReadComputeAbort(r)
  \/ \E u \in US : WriteFail(u)

Next == NextOf({"u1"}, {"r1"})

\* One user, one request at a time, the record store reachable.
Spec == Init /\ [][Next]_vars

NextFaults == Next \/ FaultsOf({"u1"}, {"r1"})

\* The same with the record store failing at any query.
SpecFaults == Init /\ [][NextFaults]_vars

(***************************************************************************)
(* Concurrent reads of one user: two GET /next-period requests interleave  *)
(* their awaits freely; periods are written only while no read is between  *)
(* its get and its set, so the history a read works on does not change     *)
(* under it.  Redis, where configured, keeps answering.                    *)
(***************************************************************************)
NoReadInFlight == \A r \in Readers : req[r].pc = "idle"

StampedeNext ==
  \/ \E r \in Readers : ReadGet(r, "u1")
  \/ \E r \in Readers : ReadCompute(r)
  \/ \E r \in Readers : ReadSet(r)
  \/ \E start \in StartDays : \E end \in EndInputs(start) :
       NoReadInFlight /\ CreatePeriod("u1", start, end, NoFlow)
  \/ \E period \in BagToSet(periodsTable), start \in StartDays : \E end \in EndInputs(start) :
       NoReadInFlight /\ UpdatePeriod("u1", period, start, end, NoFlow)
  \/ \E period \in BagToSet(periodsTable) :
       NoReadInFlight /\ DeletePeriod("u1", period)
  \/ \E d \in TickSeconds : Tick(d)

StampedeSpec == Init /\ [][StampedeNext]_vars

(***************************************************************************)
(* A read racing a write: the read computes, a write of the same user and  *)
(* its cache call complete, and only then does the read populate the       *)
(* cache.  Every entry of this specification is populated that way.        *)
(***************************************************************************)
Writes == {"create", "update", "delete"}

\* The set of a read whose forecast was computed before the write just made.
RaceSet(r) ==
  /\ last.op \in Writes /\ last.user = req[r].user
  /\ ReadSet(r)

RaceNext ==
  \/ \E r \in {"r1"} : ReadGet(r, "u1")
  \/ \E r \in {"r1"} : ReadCompute(r)
  \/ \E r \in {"r1"} : RaceSet(r)
  \/ \E start \in StartDays : \E end \in EndInputs(start) :
       CreatePeriod("u1", start, end, NoFlow)
  \/ \E period \in BagToSet(periodsTable), start \in StartDays : \E end \in EndInputs(start) :
       UpdatePeriod("u1", period, start, end, NoFlow)
  \/ \E period \in BagToSet(periodsTable) : DeletePeriod("u1", period)
  \/ \E d \in TickSeconds : Tick(d)

RaceSpec == Init /\ [][RaceNext]_vars

(***************************************************************************)
(* Two users: the requests of either user interleave their awaits with the *)
(* writes of both.  The periods of u1 start on 2024-01-01, those            *)
(* of u2 on 2024-01-25, so a forecast tells whose history it is from.      *)
(***************************************************************************)
StartOfUser(u) == IF u = "u1" THEN 19723 ELSE 19747

TwoUserNext ==
  \/ \E r \in {"r1"}, u \in Users : ReadGet(r, u)
  \/ \E r \in {"r1"} : ReadCompute(r)
  \/ \E r \in {"r1"} : ReadSet(r)
  \/ \E u \in Users :
       CreatePeriod(u, StartOfUser(u), StartOfUser(u) + 4, NoFlow)
  \/ \E u \in Users, period \in BagToSet(periodsTable) : DeletePeriod(u, period)
  \/ \E d \in TickSeconds : Tick(d)

TwoUserSpec == Init /\ [][TwoUserNext]_vars

(***************************************************************************)
(* The engine on its own: a history and a settings row are handed to       *)
(* predictNextPeriod as Period.findAll and UserSettings.findOne return     *)
(* them.                                                                   *)
(***************************************************************************)
\* Intervals between consecutive start dates, newest first; the newest
\* record starts ten days before today.  The newest record lasts 5, 7 or 12
\* days, the others 5.
GapInputs == {20, 21, 28, 29, 45, 46}
EngineOffsets == {4, 6, 11}
EngineSettings == {DefaultSettings, [avg_cycle_length |-> 0, avg_period_length |-> 12]}
\* ?months= of GET /calendar.
MonthInputs == {NoMonths} \cup {<<n>> : n \in {0 - 2, 0, 2, 7}}

RECURSIVE StartOf(_, _)
StartOf(gaps, i) == IF i = 1 THEN Today - 10 ELSE StartOf(gaps, i - 1) - gaps[i - 1]

HistoryOf(gaps, off) ==
  [i \in 1..(Len(gaps) + 1) |->
     [start_date |-> StartOf(gaps, i),
      end_date |-> StartOf(gaps, i) + (IF i = 1 THEN off ELSE 4),
      flow_intensity |-> NoFlow]]

EngineHistories ==
  {<<>>} \cup {HistoryOf(gaps, off) :
                 gaps \in UNION {[1..k -> GapInputs] : k \in 0..MaxGaps},
                 off \in EngineOffsets}

\* The variables of the running system, at rest.
AtRest ==
  /\ periodsTable = EmptyBag
  /\ userSettings = [u \in Users |-> DefaultSettings]
  /\ predictionsTable = [u \in Users |-> FALSE]
  /\ redis = "none"
  /\ store = [k \in Keys |-> NoEntry]
  /\ req = [r \in Readers |-> Idle]
  /\ last = Event("init", "u1")

EngineInit ==
  /\ AtRest
  /\ \E periods \in EngineHistories, settings \in EngineSettings :
       eng = [NoForecast EXCEPT !.periods = periods, !.settings = settings]

\* One call of predictNextPeriod.
Forecast ==
  /\ eng.result = <<>> /\ eng.calendar = <<>>
  /\ eng' = [eng EXCEPT !.result = <<predictNextPeriod(eng.settings, eng.periods, Today)>>]
  /\ UNCHANGED <<periodsTable, userSettings, predictionsTable, redis, store, req, last>>

\* One GET /calendar: the cycles asked for and what predictMultipleCycles returns.
Calendar(query) ==
  /\ eng.result = <<>> /\ eng.calendar = <<>>
  /\ eng' = [eng EXCEPT !.calendar =
               <<[months |-> query,
                  result |-> predictMultipleCycles(eng.settings, eng.periods, Today,
                                                   numberOfCycles(query))]>>]
  /\ UNCHANGED <<periodsTable, userSettings, predictionsTable, redis, store, req, last>>

EngineNext ==
  \/ Forecast
  \/ \E query \in MonthInputs : Calendar(query)

EngineSpec == EngineInit /\ [][EngineNext]_vars

(***************************************************************************)
(* The engine on histories whose records all last 1, 5 or 12 days, with    *)
(* the settings rows such histories leave behind: the shortest period the  *)
(* engine can forecast.                                                    *)
(***************************************************************************)
OrderGaps == {20, 28}
OrderOffsets == {0, 4, 11}
OrderSettings == EngineSettings \cup {[avg_cycle_length |-> 28, avg_period_length |-> 1]}

UniformHistoryOf(gaps, off) ==
  [i \in 1..(Len(gaps) + 1) |->
     [start_date |-> StartOf(gaps, i), end_date |-> StartOf(gaps, i) + off,
      flow_intensity |-> NoFlow]]

OrderHistories ==
  {<<>>} \cup {UniformHistoryOf(gaps, off) :
                 gaps \in UNION {[1..k -> OrderGaps] : k \in 0..MaxGaps},
                 off \in OrderOffsets}

OrderInit ==
  /\ AtRest
  /\ \E periods \in OrderHistories, settings \in OrderSettings :
       eng = [NoForecast EXCEPT !.periods = periods, !.settings = settings]

OrderSpec == OrderInit /\ [][EngineNext]_vars

(***************************************************************************)
(* predictFlowIntensity on its own: histories of up to MaxFlows records,   *)
(* each with a flow category or none.                                      *)
(***************************************************************************)
FlowInputs == FlowIntensity \cup {NoFlow}

FlowHistoryOf(flows) ==
  [i \in 1..Len(flows) |->
     [start_date |-> Today - 28 * i, end_date |-> Today - 28 * i + 4,
      flow_intensity |-> flows[i]]]

FlowHistories ==
  {FlowHistoryOf(flows) : flows \in UNION {[1..k -> FlowInputs] : k \in 0..MaxFlows}}

FlowInit ==
  /\ AtRest
  /\ \E periods \in FlowHistories : eng = [NoForecast EXCEPT !.periods = periods]

FlowForecast ==
  /\ eng.flow = <<>>
  /\ eng' = [eng EXCEPT !.flow = <<predictFlowIntensity(eng.periods)>>]
  /\ UNCHANGED <<periodsTable, userSettings, predictionsTable, redis, store, req, last>>

FlowNext == FlowForecast

FlowSpec == FlowInit /\ [][FlowNext]_vars

(***************************************************************************)
(* calculateWeightedCycleLength on its own: histories long enough for the  *)
(* three tiers of the weighting, with intervals 28 and 31 (valid) and 20   *)
(* (filtered out).                                                         *)
(***************************************************************************)
SampleInputs == {20, 28, 31}

SampleHistories ==
  {HistoryOf(gaps, 4) : gaps \in UNION {[1..k -> SampleInputs] : k \in 0..MaxSamples}}

WeightInit ==
  /\ AtRest
  /\ \E periods \in SampleHistories : eng = [NoForecast EXCEPT !.periods = periods]

Weigh ==
  /\ eng.weighted = <<>>
  /\ eng' = [eng EXCEPT !.weighted = <<calculateWeightedCycleLength(eng.periods)>>]
  /\ UNCHANGED <<periodsTable, userSettings, predictionsTable, redis, store, req, last>>

WeightNext == Weigh

WeightSpec == WeightInit /\ [][WeightNext]_vars

(***************************************************************************)
(* calculateCycleLengths on its own, over the histories of the engine:     *)
(* intervals on both sides of the two ends of the valid range.             *)
(***************************************************************************)
Sample ==
  /\ eng.samples = <<>>
  /\ eng' = [eng EXCEPT !.samples = <<calculateCycleLengths(eng.periods)>>]
  /\ UNCHANGED <<periodsTable, userSettings, predictionsTable, redis, store, req, last>>

SampleNext == Sample

SampleSpec == EngineInit /\ [][SampleNext]_vars

(***************************************************************************)
(* Properties of the prediction cache.                                     *)
(***************************************************************************)
\* C1: after a period is created for a user, the next GET /next-period of
\* that user finds no entry under predictions:<user>: it is a miss and is
\* not answered from the cache.
C1_ReadAfterCreateRecomputes ==
  [][(last.op = "create" /\ last'.op = "get" /\ last'.user = last.user)
       => (~last'.hit /\ ~last'.cached
           /\ ~Live(store', Key("predictions", last.user)))]_vars

\* C2: every completed write to a user's periods (create, update, delete),
\* made while Redis answers, leaves the user's forecast entry absent.
C2_EveryWriteInvalidates ==
  (last.op \in {"create", "update", "delete"} /\ last.status \in {200, 201}
     /\ redis = "ready")
    => ~Live(store, Key("predictions", last.user))

\* C3: a read that immediately follows a populating read of the same user
\* (no write, no expiry, no loss of Redis in between) is a hit: it returns the
\* payload of the first read with cached: true, does not enter the engine and
\* changes neither the cache nor any request.
C3_SecondReadIsHit ==
  [][(last.op = "set" /\ redis = "ready" /\ last'.op = "get" /\ last'.user = last.user)
       => (/\ last'.hit /\ last'.responded /\ last'.status = 200 /\ last'.cached
           /\ last'.data = last.data
           /\ last'.engine = 0
           /\ req' = req /\ store' = store)]_vars

\* A hit on an entry no time has passed over.
C3_Witness ==
  last.op = "get" /\ last.hit /\ last.age = 0 /\ last.data # <<>>

\* C4: a read that finds no entry is not an error: the engine runs once, the
\* answer is 200 with cached: false and, with Redis answering, the key holds
\* exactly the payload returned, with a time to live of 3600 seconds.
C4_MissComputesAndPopulates ==
  /\ \A r \in Readers :
       /\ req[r].pc = "miss" => req[r].calls = 0
       /\ req[r].pc = "computed" => (req[r].calls = 1 /\ req[r].data # <<>>)
  /\ last.op \in {"get", "compute", "set"} => last.status \in {0, 200}
  /\ last.op = "set" =>
       /\ last.responded /\ last.status = 200 /\ ~last.cached
       /\ last.engine = 1 /\ last.data # <<>>
       /\ redis = "ready" =>
            store[Key("predictions", last.user)] =
              [present |-> TRUE, value |-> JSONstringify(last.data[1]),
               ttl |-> 3600, age |-> 0]

\* A miss answered and stored.
C4_Witness ==
  /\ last.op = "set" /\ ~last.cached /\ redis = "ready"
  /\ Live(store, Key("predictions", last.user))

\* C5: an entry is never served 3600 seconds or more after it was written;
\* a read that meets an entry whose time to live has elapsed is a miss, goes
\* through the engine and, with Redis answering, stores a fresh entry.
C5_ExpiredEntryNotServed ==
  /\ (last.op = "get" /\ last.hit) => (last.age >= 0 /\ last.age < 3600)
  /\ (last.op = "get" /\ last.age >= 3600) =>
       /\ ~last.hit /\ ~last.responded
       /\ ~store[Key("predictions", last.user)].present
       /\ \E r \in Readers : req[r].pc = "miss" /\ req[r].user = last.user
  /\ (last.op = "set" /\ last.expired) =>
       /\ last.engine = 1 /\ last.status = 200 /\ ~last.cached
       /\ redis = "ready" =>
            /\ store[Key("predictions", last.user)].age = 0
            /\ store[Key("predictions", last.user)].value = JSONstringify(last.data[1])

\* A read that met an expired entry, recomputed and stored the forecast anew.
C5_Witness ==
  /\ last.op = "set" /\ last.expired /\ redis = "ready"
  /\ Live(store, Key("predictions", last.user))

\* C6: with the cache store unavailable (no client configured, or its get
\* failing) a read is a miss, is answered 200 with a freshly computed
\* forecast and cached: false, and no cache write is attempted.
C6_UnavailableCacheNoWrite ==
  /\ (last.op = "get" /\ last.unavailable) => (~last.hit /\ ~last.responded)
  /\ (last.op = "set" /\ last.unavailable) =>
       /\ last.status = 200 /\ ~last.cached /\ last.engine = 1 /\ last.data # <<>>
       /\ ~last.attempted

\* C7: when the record store cannot be reached during a read that missed,
\* the answer is an error without a forecast, and no cache entry is created
\* or changed.
C7_StoreFailureIsError ==
  [][last'.op = "readfail"
       => (/\ last'.responded /\ last'.status = 500
           /\ last'.data = <<>> /\ ~last'.cached
           /\ store' = store)]_vars

\* A read answered 500 after its miss.
C7_Witness ==
  last.op = "readfail" /\ last.status = 500 /\ last.engine = 1

\* C8: in every answer of GET /next-period, cached is true exactly when the
\* payload was read from the cache, and false exactly when the engine ran
\* for this request.
C8_CachedFlagTellsSource ==
  (last.responded /\ last.op \in {"get", "set"}) =>
    /\ last.cached <=> last.engine = 0
    /\ last.cached <=> last.hit
    /\ last.cached =>
         /\ Live(store, Key("predictions", last.user))
         /\ last.data = <<JSONparse(store[Key("predictions", last.user)].value)>>
    /\ ~last.cached => last.engine = 1

\* An answer from the cache.
C8_Witness ==
  last.responded /\ last.op = "get" /\ last.cached /\ last.engine = 0

(***************************************************************************)
(* Properties of the engine.                                               *)
(***************************************************************************)
\* C9: on the statistical path (three records or more) the confidence lies
\* in [0.40, 0.95], whatever the tier, the number of records and the mean.
C9_ConfidenceWithinBounds ==
  (eng.result # <<>> /\ Len(eng.periods) >= 3) =>
    /\ eng.result[1].confidenceScore >= 120
    /\ eng.result[1].confidenceScore <= 285

\* Five records a regular 28 days apart: 0.92 + 5 * 0.08 / 12 exceeds 0.95
\* and is cut to it.
C9_Witness ==
  /\ eng.result # <<>> /\ Len(eng.periods) = 5
  /\ eng.result[1].cycleStats.regularity = "very_regular"
  /\ MathRound(eng.result[1].cycleStats.avgCycleLength) = 28
  /\ eng.result[1].confidenceScore = 285

\* C10: cyclesTracked is the number of intervals between consecutive start
\* dates that lie in [21, 45], on the statistical and on the default path.
C10_CyclesTrackedCountsValidIntervals ==
  eng.result # <<>> =>
    eng.result[1].cycleStats.cyclesTracked =
      Cardinality({i \in 1..(Len(eng.periods) - 1) :
                     LET days == eng.periods[i].start_date - eng.periods[i + 1].start_date
                     IN days >= 21 /\ days <= 45})

\* C11: predictNextPeriod takes the default path exactly for histories of
\* fewer than three records (the empty one included) and the statistical
\* path otherwise; the default path always yields a forecast with dates.
C11_DefaultPathBelowThreeRecords ==
  eng.result # <<>> =>
    /\ Len(eng.periods) < 3 =>
         /\ eng.result[1] = useDefaultPrediction(eng.settings, eng.periods, Today)
         /\ eng.result[1].predictedStartDate \in Int
         /\ eng.result[1].predictedEndDate >= eng.result[1].predictedStartDate
         /\ eng.result[1].cycleStats.cyclesTracked = Len(eng.periods)
    /\ Len(eng.periods) >= 3 =>
         /\ eng.result[1] = StatisticalPrediction(eng.periods)
         /\ eng.result[1].cycleStats.cyclesTracked < Len(eng.periods)

\* The default forecast of the empty history: 28 days from today.
C11_Witness ==
  /\ eng.result # <<>> /\ eng.periods = <<>> /\ eng.settings = DefaultSettings
  /\ eng.result[1].predictedStartDate = Today + 28

C13_CalendarCountClamped ==
  (eng.calendar # <<>> /\ eng.calendar[1].months # NoMonths) =>
    LET n == eng.calendar[1].months[1]
        predictions == eng.calendar[1].result.predictions
    IN /\ Len(predictions) = Min2(Max2(n, 1), 6)
       /\ \A k \in 1..Len(predictions) : predictions[k].cycleNumber = k
       /\ eng.calendar[1].result.cycleStats =
            predictNextPeriod(eng.settings, eng.periods, Today).cycleStats

\* C14: in a multi-cycle forecast the confidence of cycle k >= 2 is
\* max(c1 * 0.95^(k-1), 0.40), c1 the confidence of cycle 1; it never rises
\* from one cycle to the next and never falls below 0.40.  A confidence is
\* the quotient p/q with q = 300 * 20^(k-1).
C14_ConfidenceDecaysToFloor ==
  eng.calendar # <<>> =>
    LET predictions == eng.calendar[1].result.predictions
        c1 == predictions[1].confidenceScore[1]
    IN /\ predictions[1].confidenceScore[2] = 300
       /\ \A k \in 2..Len(predictions) :
            LET c == predictions[k].confidenceScore
                before == predictions[k - 1].confidenceScore
            IN /\ c[2] = 300 * Pow(20, k - 1)
               /\ c[1] = IF c1 * Pow(19, k - 1) >= 120 * Pow(20, k - 1)
                         THEN c1 * Pow(19, k - 1) ELSE 120 * Pow(20, k - 1)
               /\ c[1] <= 20 * before[1]
               /\ c[1] >= 120 * Pow(20, k - 1)

\* Six cycles from the empty history: 0.40 decayed is raised back to 0.40.
C14_Witness ==
  /\ eng.calendar # <<>> /\ eng.periods = <<>>
  /\ Len(eng.calendar[1].result.predictions) = 6
  /\ eng.calendar[1].result.predictions[1].confidenceScore = <<120, 300>>
  /\ eng.calendar[1].result.predictions[6].confidenceScore[1] = 120 * Pow(20, 5)

\* C18: on the statistical path every cycle k >= 2 starts
\* round(weighted mean interval) days after cycle k - 1, the same whole
\* number of days by which cycle 1 follows the newest record's start.
C18_CyclesStepByRoundedWeightedMean ==
  (eng.calendar # <<>> /\ Len(eng.periods) >= 3) =>
    LET predictions == eng.calendar[1].result.predictions
        step == MathRound(calculateWeightedCycleLength(eng.periods))
    IN /\ predictions[1].predictedStartDate = eng.periods[1].start_date + step
       /\ \A k \in 2..Len(predictions) :
            predictions[k].predictedStartDate =
              predictions[k - 1].predictedStartDate + step

(***************************************************************************)
(* Properties of the flow prediction.                                      *)
(***************************************************************************)
\* C15: predictFlowIntensity returns null exactly when no record carries a
\* flow category (the empty history included); otherwise it returns light,
\* moderate or heavy, and records without a category do not count: the
\* result is that of the history with those records removed.
C15_NullIffNoCategory ==
  eng.flow # <<>> =>
    LET carrying == {i \in 1..Len(eng.periods) : eng.periods[i].flow_intensity # NoFlow}
    IN /\ eng.flow[1] = NoFlow <=> carrying = {}
       /\ carrying # {} => eng.flow[1] \in FlowIntensity
       /\ eng.flow[1] = predictFlowIntensity(WithFlow(eng.periods))

\* light, none, light, none gives light.
C15_Witness ==
  /\ eng.flow = <<"light">> /\ Len(eng.periods) = 4
  /\ eng.periods[1].flow_intensity = "light" /\ eng.periods[2].flow_intensity = NoFlow
  /\ eng.periods[3].flow_intensity = "light" /\ eng.periods[4].flow_intensity = NoFlow

\* C16: only the six newest records that carry a category count, each for 1
\* and each of the three newest of them for 0.5 more; the category returned
\* has the largest total.  Totals are doubled here.
C16_RecencyWeightedMajority ==
  (eng.flow # <<>> /\ eng.flow[1] # NoFlow) =>
    LET carrying == WithFlow(eng.periods)
        considered == SubSeq(carrying, 1, Min2(6, Len(carrying)))
        recent == SubSeq(carrying, 1, Min2(3, Len(carrying)))
    IN \A f \in FlowIntensity :
         2 * Cardinality({i \in 1..Len(considered) : considered[i].flow_intensity = f})
           + Cardinality({i \in 1..Len(recent) : recent[i].flow_intensity = f})
         <= 2 * Cardinality({i \in 1..Len(considered) :
                               considered[i].flow_intensity = eng.flow[1]})
              + Cardinality({i \in 1..Len(recent) : recent[i].flow_intensity = eng.flow[1]})

\* heavy, heavy, heavy, light, light, light (newest first) gives heavy.
C16_Witness ==
  /\ eng.flow = <<"heavy">> /\ Len(eng.periods) = 6
  /\ \A i \in 1..3 : eng.periods[i].flow_intensity = "heavy"
  /\ \A i \in 4..6 : eng.periods[i].flow_intensity = "light"

C19_WeightedMeanByTier ==
  eng.weighted # <<>> =>
    LET gaps == [i \in 1..(Len(eng.periods) - 1) |->
                   eng.periods[i].start_date - eng.periods[i + 1].start_date]
        s == FilterRange(gaps, 21, 45)
        n == Len(s)
        w == eng.weighted[1]
        s1 == SumSeq(SubSeq(s, 1, Min2(3, n)))
        s2 == SumSeq(SubSeq(s, 4, Min2(6, n)))
        s3 == SumSeq(SubSeq(s, 7, n))
    IN /\ w[2] > 0
       /\ n = 0 => w[1] = 0
       /\ (n >= 1 /\ n <= 3) => w[1] * n = w[2] * s1
       /\ (n >= 4 /\ n <= 6) =>
            w[1] * 30 * (n - 3) = w[2] * (7 * s1 * (n - 3) + 9 * s2)
       /\ n >= 7 =>
            w[1] * 30 * (n - 6) = w[2] * (5 * s1 * (n - 6) + 3 * s2 * (n - 6) + 6 * s3)

\* Seven valid intervals or more whose weighted mean is not their plain mean.
C19_Witness ==
  /\ eng.weighted # <<>>
  /\ Len(calculateCycleLengths(eng.periods)) >= 7
  /\ eng.weighted[1][1] * Len(calculateCycleLengths(eng.periods))
       # eng.weighted[1][2] * SumSeq(calculateCycleLengths(eng.periods))

C21_LaterCyclesKeepOffsets ==
  eng.calendar # <<>> =>
    LET predictions == eng.calendar[1].result.predictions
    IN \A k \in 2..Len(predictions) :
         /\ predictions[k].predictedEndDate - predictions[k].predictedStartDate
              = predictions[1].predictedEndDate - predictions[1].predictedStartDate
         /\ predictions[k].ovulationStart = predictions[k].predictedStartDate - 19
         /\ predictions[k].ovulationEnd = predictions[k].predictedStartDate - 13

(***************************************************************************)
(* Properties of the statistics.                                           *)
(***************************************************************************)
\* C22: on the statistical path the average duration carried in cycleStats
\* is the mean of end - start + 1 over the records that last 2 to 10 days
\* (5 when there is none), and the payload reports that mean rounded.
C22_AverageDurationIsFiltered ==
  (eng.result # <<>> /\ Len(eng.periods) >= 3) =>
    LET days == [i \in 1..Len(eng.periods) |->
                   eng.periods[i].end_date - eng.periods[i].start_date + 1]
        kept == FilterRange(days, 2, 10)
        mean == IF Len(kept) = 0 THEN <<5, 1>> ELSE <<SumSeq(kept), Len(kept)>>
        carried == eng.result[1].cycleStats.avgPeriodLength
    IN /\ carried[1] * mean[2] = mean[1] * carried[2]
       /\ responseData(eng.result[1]).cycle_stats.avg_period_length
            = (2 * mean[1] + mean[2]) \div (2 * mean[2])

\* C23: the interval samples are the differences in days between each
\* record's start and the next older record's start that lie in [21, 45],
\* in the order of the records; a difference outside the range is left out,
\* and the differences next to it stay as they are.
C23_SamplesAreFilteredDifferences ==
  eng.samples # <<>> =>
    LET diffs == [i \in 1..(Len(eng.periods) - 1) |->
                    eng.periods[i].start_date - eng.periods[i + 1].start_date]
        kept == {i \in 1..Len(diffs) : diffs[i] >= 21 /\ diffs[i] <= 45}
        nth(j) == CHOOSE i \in kept : Cardinality({m \in kept : m <= i}) = j
        s == eng.samples[1]
    IN /\ Len(s) = Cardinality(kept)
       /\ \A j \in 1..Len(s) : s[j] = diffs[nth(j)]

\* Differences 46, 45, 20, 21: the samples are 45, 21.
C23_Witness ==
  /\ eng.samples = << <<45, 21>> >> /\ Len(eng.periods) = 5
  /\ eng.periods[1].start_date - eng.periods[2].start_date = 46
  /\ eng.periods[3].start_date - eng.periods[4].start_date = 20

C25_RacedEntryEndsAtNextWrite ==
  [][(last.op \in Writes /\ last.status \in {200, 201} /\ redis = "ready"
        /\ last'.op = "get" /\ last'.user = last.user)
       => ~last'.hit]_vars

(***************************************************************************)
(* Frame properties of the prediction cache.                               *)
(***************************************************************************)
\* C26: a read answered from the cache changes nothing in the cache: the
\* entry keeps its payload, its time to live and its age (a hit does not
\* restart the time to live), no other key changes, and the request is over.
C26_HitLeavesEntryUnchanged ==
  [][(last'.op = "get" /\ last'.hit)
       => (/\ store' = store
           /\ store[Key("predictions", last'.user)].value = JSONstringify(last'.data[1])
           /\ req' = req
           /\ UNCHANGED <<periodsTable, userSettings, predictionsTable>>)]_vars

\* A hit on an entry half an hour old, which is still half an hour old.
C26_Witness ==
  /\ last.op = "get" /\ last.hit /\ last.age = 1800
  /\ store[Key("predictions", last.user)].age = 1800
  /\ store[Key("predictions", last.user)].ttl = 3600

\* C27: a step of a request of user a (a read's get, compute or set, an
\* expiry met by the get, a write and its cache call) leaves every key and
\* the settings of any other user b as they were, and a response to a never
\* carries the forecast of b's records.
C27_UsersAreIndependent ==
  [][(last'.op \in {"get", "compute", "set"} \cup Writes) =>
       \A b \in Users \ {last'.user} :
         /\ store'[Key("predictions", b)] = store[Key("predictions", b)]
         /\ store'[Key("prediction", b)] = store[Key("prediction", b)]
         /\ userSettings'[b] = userSettings[b]
         /\ (last'.responded /\ last'.data # <<>>) =>
              last'.data[1].next_period.predicted_start_date
                # toISODate(StartOfUser(b) + 28)]_vars

\* Both users have an entry, each with the forecast of the user's own
\* records, and u2 has just been answered from the cache.
C27_Witness ==
  /\ last.op = "get" /\ last.hit /\ last.user = "u2"
  /\ last.data[1].next_period.predicted_start_date = toISODate(StartOfUser("u2") + 28)
  /\ Live(store, Key("predictions", "u1")) /\ Live(store, Key("predictions", "u2"))
  /\ JSONparse(store[Key("predictions", "u1")].value).next_period.predicted_start_date
       = toISODate(StartOfUser("u1") + 28)

(***************************************************************************)
(* Invariants of the forecasts.                                            *)
(***************************************************************************)
\* C28: for a history of three records or more the forecast starts 21 to 45
\* days after the newest record's start, and the starts of the cycles of a
\* calendar increase strictly.
C28_StartWithinRangeAndIncreasing ==
  Len(eng.periods) >= 3 =>
    /\ eng.result # <<>> =>
         eng.result[1].predictedStartDate - eng.periods[1].start_date \in 21..45
    /\ eng.calendar # <<>> =>
         LET predictions == eng.calendar[1].result.predictions
         IN /\ predictions[1].predictedStartDate - eng.periods[1].start_date \in 21..45
            /\ \A k \in 2..Len(predictions) :
                 predictions[k].predictedStartDate > predictions[k - 1].predictedStartDate

\* C29: in every prediction, of a single forecast and of every cycle of a
\* calendar, on either path: fertile-window start < fertile-window end <
\* predicted start <= predicted end.
C29_DatesAreOrdered ==
  LET ordered(p) == /\ p.ovulationStart < p.ovulationEnd
                    /\ p.ovulationEnd < p.predictedStartDate
                    /\ p.predictedStartDate <= p.predictedEndDate
  IN /\ eng.result # <<>> => ordered(eng.result[1])
     /\ eng.calendar # <<>> =>
          \A k \in 1..Len(eng.calendar[1].result.predictions) :
            ordered(eng.calendar[1].result.predictions[k])

\* Records of one day each on the statistical path: the later cycles of
\* the calendar are forecast to start and end on the same day.
C29_Witness ==
  /\ eng.calendar # <<>> /\ Len(eng.periods) >= 3
  /\ Len(eng.calendar[1].result.predictions) = 6
  /\ \A k \in 2..6 :
       eng.calendar[1].result.predictions[k].predictedEndDate
         = eng.calendar[1].result.predictions[k].predictedStartDate

(***************************************************************************)
(* Ties of the flow prediction.                                            *)
(***************************************************************************)
\* C30: when several categories share the largest total, the prediction is
\* the first of them in the order light, moderate, heavy, whatever the order
\* of the records; moderate is returned only when its total is the largest
\* and light's is smaller, never as a fallback.  Totals are doubled here.
C30_TiesGoToFirstCategory ==
  (eng.flow # <<>> /\ eng.flow[1] # NoFlow) =>
    LET order == <<"light", "moderate", "heavy">>
        carrying == WithFlow(eng.periods)
        considered == SubSeq(carrying, 1, Min2(6, Len(carrying)))
        recent == SubSeq(carrying, 1, Min2(3, Len(carrying)))
        total == [j \in 1..3 |->
                    2 * Cardinality({i \in 1..Len(considered) :
                                       considered[i].flow_intensity = order[j]})
                    + Cardinality({i \in 1..Len(recent) :
                                     recent[i].flow_intensity = order[j]})]
        largest == Max2(total[1], Max2(total[2], total[3]))
        first == CHOOSE j \in 1..3 :
                   total[j] = largest /\ \A m \in 1..(j - 1) : total[m] < largest
    IN eng.flow[1] = order[first]

\* heavy, then light (newest first): both total 1.5, the prediction is light.
C30_Witness ==
  /\ eng.flow = <<"light">> /\ Len(eng.periods) = 2
  /\ eng.periods[1].flow_intensity = "heavy" /\ eng.periods[2].flow_intensity = "light"

====
